---------------------------- MODULE Spec2Model ----------------------------
(***************************************************************************)
(* A model of the MLX model converter: the model store on disk (discovery, *)
(* zip export, zip import), the conversion gateway and the single-slot     *)
(* inference cache.                                                        *)
(*                                                                         *)
(* Strings are sequences of tokens.  A token is an atomic piece of text    *)
(* that holds neither a path separator nor white space; the separator is   *)
(* the token "/" and a white-space character is the token " ".  So         *)
(* "foo/config.json" is <<"foo", "/", "config.json">> and "w.safetensors"  *)
(* is <<"w", ".safetensors">>.  A path is a sequence of names (strings     *)
(* without "/"), read from the working directory <<>>.                     *)
(*                                                                         *)
(* The file system raises what the shape of the tree makes it raise (a     *)
(* file where a directory is needed, a directory where a file is written); *)
(* a full disk or a vanishing file is not modelled, so the handlers that   *)
(* only catch such errors (zip_model's except clause) never run.           *)
(***************************************************************************)
EXTENDS Integers, Sequences, FiniteSets, TLC

VARIABLES
    fs,         \* the file system: [dirs: set of paths, files: path -> size]
    archive,    \* the zip file at hand (exported, or uploaded)
    request,    \* the conversion form: model_path, output_name, quantization
    result,     \* the last operation: its name, argument and return value
    engine,     \* the conversion engine: calls made to convert()
    cache,      \* tester._model_cache: path (<<>> is None, <<p>> the str p),
                \* model and tokenizer (0 is None)
    loads,      \* the inference engine: the calls made to load(), in order
    calls,      \* the callers of the tester: for each, the call it is in, the
                \* line it is at and its local variables
    serialized  \* whether the callers run their calls one at a time

vars == <<fs, archive, request, result, engine, cache, loads, calls, serialized>>

----------------------------------------------------------------------------
(* Strings *)

Slash == "/"
Space == " "
EmptyStr == <<>>

Contains(s, t) == \E i \in 1..Len(s) : s[i] = t

EndsWith(s, suf) ==
    /\ Len(s) >= Len(suf)
    /\ SubSeq(s, Len(s) - Len(suf) + 1, Len(s)) = suf

FirstIndex(s, t) == CHOOSE i \in 1..Len(s) : s[i] = t /\ \A j \in 1..(i-1) : s[j] # t

\* str.split("/"): the pieces between separators, empty pieces kept
RECURSIVE SplitSlash(_)
SplitSlash(s) ==
    IF ~Contains(s, Slash) THEN <<s>>
    ELSE LET i == FirstIndex(s, Slash)
         IN  <<SubSeq(s, 1, i - 1)>> \o SplitSlash(SubSeq(s, i + 1, Len(s)))

\* str.strip(): leading and trailing white space removed
RECURSIVE Strip(_)
Strip(s) ==
    IF s = <<>> THEN s
    ELSE IF Head(s) = Space THEN Strip(Tail(s))
    ELSE IF s[Len(s)] = Space THEN Strip(SubSeq(s, 1, Len(s) - 1))
    ELSE s

----------------------------------------------------------------------------
(* Paths and the file system *)

Cwd == <<>>
ConfigJson == <<"config.json">>
ExtSafetensors == <<".safetensors">>
ExtNpz == <<".npz">>
CurDir == <<".">>
ParDir == <<"..">>

Parent(p) == IF p = <<>> THEN p ELSE SubSeq(p, 1, Len(p) - 1)
BaseName(p) == IF p = <<>> THEN EmptyStr ELSE p[Len(p)]
IsPrefix(p, q) == Len(p) <= Len(q) /\ SubSeq(q, 1, Len(p)) = p
IsProperPrefix(p, q) == Len(p) < Len(q) /\ SubSeq(q, 1, Len(p)) = p
Prefixes(p) == {SubSeq(p, 1, n) : n \in 0..Len(p)}

\* os.path.join(dir, name) as the file system resolves it: an empty name or
\* "." is the directory itself, ".." its parent
JoinPath(dir, name) ==
    IF name = EmptyStr \/ name = CurDir THEN dir
    ELSE IF name = ParDir THEN Parent(dir)
    ELSE Append(dir, name)

IsDir(f, p) == p \in f.dirs
IsFile(f, p) == p \in DOMAIN f.files
Exists(f, p) == IsDir(f, p) \/ IsFile(f, p)

FilesUnder(f, p) == {q \in DOMAIN f.files : IsProperPrefix(p, q)}
ChildFiles(f, p) == {q \in DOMAIN f.files : Parent(q) = p /\ q # p}
ChildDirs(f, p) == {q \in f.dirs : Parent(q) = p /\ q # p}

\* the files below p, as paths relative to p, with their sizes
RelFiles(f, p) ==
    {<<SubSeq(q, Len(p) + 1, Len(q)), f.files[q]>> : q \in FilesUnder(f, p)}

RECURSIVE SumSizes(_, _)
SumSizes(f, S) ==
    IF S = {} THEN 0
    ELSE LET q == CHOOSE x \in S : TRUE
         IN  f.files[q] + SumSizes(f, S \ {q})

\* os.makedirs(p, exist_ok=True): FileExistsError when p or one of its
\* parents is a file
MakeDirs(f, p) ==
    IF \E q \in Prefixes(p) : IsFile(f, q)
    THEN [ok |-> FALSE, fs |-> f]
    ELSE [ok |-> TRUE, fs |-> [f EXCEPT !.dirs = @ \cup Prefixes(p)]]

\* shutil.rmtree(p) of a directory
RmTree(f, p) ==
    [dirs  |-> {d \in f.dirs : ~IsPrefix(p, d)},
     files |-> [q \in {x \in DOMAIN f.files : ~IsPrefix(p, x)} |-> f.files[q]]]

WriteFile(f, p, size) ==
    [f EXCEPT !.files = [q \in DOMAIN f.files \cup {p} |->
                            IF q = p THEN size ELSE f.files[q]]]

----------------------------------------------------------------------------
(* utils.get_model_size and utils.format_size *)

Kib == 1024

GetModelSize(f, p) ==
    IF IsFile(f, p) THEN f.files[p] ELSE SumSizes(f, FilesUnder(f, p))

\* round(num / den, to the nearest integer, ties to even): what the format
\* specs .1f and .2f do to a value that a float holds exactly
RoundHalfEven(num, den) ==
    LET q == num \div den
        r == num % den
    IN  IF 2 * r < den THEN q
        ELSE IF 2 * r > den THEN q + 1
        ELSE IF q % 2 = 0 THEN q ELSE q + 1

\* the number shown and its unit; KB and MB in tenths, GB in hundredths
FormatSize(n) ==
    IF n < Kib THEN [value |-> n, unit |-> "B"]
    ELSE IF n < Kib * Kib THEN [value |-> RoundHalfEven(n * 10, Kib), unit |-> "KB"]
    ELSE IF n < Kib * Kib * Kib
         THEN [value |-> RoundHalfEven(n * 10, Kib * Kib), unit |-> "MB"]
    ELSE [value |-> RoundHalfEven(n * 100, Kib * Kib * Kib), unit |-> "GB"]

----------------------------------------------------------------------------
(* utils.list_converted_models *)

\* the test on a directory's own file listing
HasModelSignature(f, d) ==
    \E q \in ChildFiles(f, d) :
        \/ BaseName(q) = ConfigJson
        \/ EndsWith(BaseName(q), ExtSafetensors)
        \/ EndsWith(BaseName(q), ExtNpz)

\* a faulty variant: the walk goes on below a directory it has reported
RECURSIVE WalkNoPrune(_, _)
WalkNoPrune(f, d) ==
    (IF HasModelSignature(f, d) THEN {d} ELSE {})
        \cup UNION {WalkNoPrune(f, c) : c \in ChildDirs(f, d)}

\* os.walk top down; dirnames.clear() at a directory that is reported
RECURSIVE Walk(_, _)
Walk(f, d) ==
    IF HasModelSignature(f, d) THEN {d}
    ELSE UNION {Walk(f, c) : c \in ChildDirs(f, d)}

ModelEntry(f, d) ==
    [name |-> BaseName(d), path |-> d, size |-> FormatSize(GetModelSize(f, d))]

\* the order of str: by the rank of the first token that differs
TokRank(t) ==
    CASE t = "bar" -> 1
      [] t = "foo" -> 2
      [] t = "fresh" -> 3
      [] t = "models" -> 4
      [] t = "sub" -> 5
      [] t = "up" -> 6
      [] OTHER -> 0

RECURSIVE StrLeq(_, _)
StrLeq(s, t) ==
    IF s = <<>> THEN TRUE
    ELSE IF t = <<>> THEN FALSE
    ELSE IF Head(s) = Head(t) THEN StrLeq(Tail(s), Tail(t))
    ELSE TokRank(Head(s)) <= TokRank(Head(t))

Perms(S) ==
    {q \in [1..Cardinality(S) -> S] : \A i, j \in 1..Cardinality(S) : i # j => q[i] # q[j]}

\* every order sorted() can give: ascending by name, entries of one name in
\* the order the walk met them, which the directory listing decides
SortedByName(S) ==
    {q \in Perms(S) : \A i \in 1..(Len(q) - 1) : StrLeq(q[i].name, q[i + 1].name)}

ListConvertedModels(f, outputDir) ==
    IF ~Exists(f, outputDir) THEN {<<>>}
    ELSE SortedByName({ModelEntry(f, d) : d \in Walk(f, outputDir)})

----------------------------------------------------------------------------
(* Zip archives: a zip file is [kind, stem, entries]; kind "none" is no file
   at the path, "notzip" a file zipfile.is_zipfile refuses, "badzip" one whose
   central directory cannot be read, "zip" a readable archive.  An entry is
   [name, size]; a name ending in "/" is a directory entry. *)

NoZip == [kind |-> "none", stem |-> EmptyStr, entries |-> <<>>]

IsDirEntry(e) == e.name # <<>> /\ e.name[Len(e.name)] = Slash

\* "a/b" of the names <<a, b>>
RECURSIVE JoinSlash(_)
JoinSlash(segs) ==
    IF segs = <<>> THEN EmptyStr
    ELSE IF Len(segs) = 1 THEN segs[1]
    ELSE segs[1] \o <<Slash>> \o JoinSlash(Tail(segs))

RECURSIVE SeqOfSet(_)
SeqOfSet(S) ==
    IF S = {} THEN <<>>
    ELSE LET x == CHOOSE y \in S : TRUE IN <<x>> \o SeqOfSet(S \ {x})

RECURSIVE ConcatAll(_)
ConcatAll(ss) == IF ss = <<>> THEN <<>> ELSE Head(ss) \o ConcatAll(Tail(ss))

\* pathlib's suffix, as far as the code compares it: the last token when it
\* is one of the two weight extensions and does not start the name
PathSuffix(name) ==
    IF Len(name) >= 2 /\ <<name[Len(name)]>> \in {ExtSafetensors, ExtNpz}
    THEN <<name[Len(name)]>>
    ELSE EmptyStr

\* a faulty variant: the files of base_dir itself only, no walk below it
ArchiveWalkTopOnly(f, root, d) ==
    LET arc(q) == JoinSlash(SubSeq(q, Len(root) + 1, Len(q)))
        fls == SeqOfSet(ChildFiles(f, d))
    IN  [i \in 1..Len(fls) |-> [name |-> arc(fls[i]), size |-> f.files[fls[i]]]]

\* shutil.make_archive's walk of base_dir: at each directory an entry for
\* every subdirectory, then one for every file, then the subdirectories
RECURSIVE ArchiveWalk(_, _, _)
ArchiveWalk(f, root, d) ==
    LET arc(q) == JoinSlash(SubSeq(q, Len(root) + 1, Len(q)))
        subs == SeqOfSet(ChildDirs(f, d))
        fls == SeqOfSet(ChildFiles(f, d))
    IN  [i \in 1..Len(subs) |-> [name |-> arc(subs[i]) \o <<Slash>>, size |-> 0]]
        \o [i \in 1..Len(fls) |-> [name |-> arc(fls[i]), size |-> f.files[fls[i]]]]
        \o ConcatAll([i \in 1..Len(subs) |-> ArchiveWalk(f, root, subs[i])])

\* make_archive(zip_base, "zip", root_dir=parent, base_dir=name)
MakeArchive(f, modelDir) ==
    [kind |-> "zip",
     stem |-> BaseName(modelDir),
     entries |-> <<[name |-> BaseName(modelDir) \o <<Slash>>, size |-> 0]>>
                 \o ArchiveWalk(f, Parent(modelDir), modelDir)]

\* utils.zip_model
ZipModel(f, modelPath) ==
    IF ~IsDir(f, modelPath)
    THEN [success |-> FALSE, message |-> "not found", zip |-> NoZip]
    ELSE IF ~\E q \in ChildFiles(f, modelPath) :
                \/ BaseName(q) = ConfigJson
                \/ PathSuffix(BaseName(q)) \in {ExtSafetensors, ExtNpz}
    THEN [success |-> FALSE, message |-> "no model files", zip |-> NoZip]
    ELSE [success |-> TRUE, message |-> "zipped", zip |-> MakeArchive(f, modelPath)]

----------------------------------------------------------------------------
(* utils.import_model_zip *)

\* ZipFile._extract_member: the name's empty, "." and ".." pieces dropped,
\* the upper directories made, then the directory or the file written.
\* [ok, fs]; ok is FALSE when the file system raises.
ExtractMember(f, base, e) ==
    LET segs == SelectSeq(SplitSlash(e.name),
                          LAMBDA x : x \notin {EmptyStr, CurDir, ParDir})
        target == base \o segs
    IN  IF \E q \in Prefixes(target) : q # target /\ IsFile(f, q)
        THEN [ok |-> FALSE, fs |-> f]
        ELSE LET g == [f EXCEPT !.dirs = @ \cup Prefixes(Parent(target))]
             IN  IF IsDirEntry(e)
                 THEN IF IsFile(g, target) THEN [ok |-> FALSE, fs |-> g]
                      ELSE [ok |-> TRUE, fs |-> [g EXCEPT !.dirs = @ \cup {target}]]
                 ELSE IF IsDir(g, target) THEN [ok |-> FALSE, fs |-> g]
                      ELSE [ok |-> TRUE, fs |-> WriteFile(g, target, e.size)]

\* ZipFile.extractall: the entries in the archive's order, up to the first
\* one that raises
RECURSIVE ExtractAll(_, _, _)
ExtractAll(f, base, entries) ==
    IF entries = <<>> THEN [ok |-> TRUE, fs |-> f]
    ELSE LET r == ExtractMember(f, base, Head(entries))
         IN  IF r.ok THEN ExtractAll(r.fs, base, Tail(entries)) ELSE r

HasModelFiles(entries) ==
    \E i \in 1..Len(entries) :
        \/ EndsWith(entries[i].name, ConfigJson)
        \/ EndsWith(entries[i].name, ExtSafetensors)
        \/ EndsWith(entries[i].name, ExtNpz)

TopDirs(entries) ==
    {Head(SplitSlash(entries[i].name)) :
        i \in {j \in 1..Len(entries) : Contains(entries[j].name, Slash)}}

ImportFailure(msg, f) ==
    [success |-> FALSE, message |-> msg, model_path |-> <<>>, fs |-> f]

\* a faulty variant: no look at the destination before the extraction
ImportSingleOverwrite(f, z, outputDir) ==
    LET model_name == CHOOSE s \in TopDirs(z.entries) : TRUE
        dest == JoinPath(outputDir, model_name)
        x == ExtractAll(f, outputDir, z.entries)
    IN  IF ~x.ok THEN ImportFailure("import failed", x.fs)
        ELSE [success |-> TRUE, message |-> "imported", model_path |-> dest, fs |-> x.fs]

\* the branch of an archive with one top-level folder
ImportSingle(f, z, outputDir) ==
    LET model_name == CHOOSE s \in TopDirs(z.entries) : TRUE
        dest == JoinPath(outputDir, model_name)
        x == ExtractAll(f, outputDir, z.entries)
    IN  IF Exists(f, dest) THEN ImportFailure("already exists", f)
        ELSE IF ~x.ok THEN ImportFailure("import failed", x.fs)
        ELSE [success |-> TRUE, message |-> "imported", model_path |-> dest, fs |-> x.fs]

\* a faulty variant: the archive extracted beside the folder made for it
ImportFlatBeside(f, z, outputDir) ==
    LET dest == JoinPath(outputDir, z.stem)
        made == [f EXCEPT !.dirs = @ \cup {dest}]
        x == ExtractAll(made, outputDir, z.entries)
    IN  IF Exists(f, dest) THEN ImportFailure("already exists", f)
        ELSE IF ~x.ok THEN ImportFailure("import failed", x.fs)
        ELSE [success |-> TRUE, message |-> "imported", model_path |-> dest, fs |-> x.fs]

\* the branch of a flat archive, or one with several top-level entries
ImportFlat(f, z, outputDir) ==
    LET dest == JoinPath(outputDir, z.stem)
        made == [f EXCEPT !.dirs = @ \cup {dest}]
        x == ExtractAll(made, dest, z.entries)
    IN  IF Exists(f, dest) THEN ImportFailure("already exists", f)
        ELSE IF ~x.ok THEN ImportFailure("import failed", x.fs)
        ELSE [success |-> TRUE, message |-> "imported", model_path |-> dest, fs |-> x.fs]

\* [success, message, model_path, fs]: the dict returned and the file system
\* the call leaves
ImportModelZip(f, z, outputDir) ==
    IF z.kind = "none" THEN ImportFailure("no file", f)
    ELSE IF z.kind = "notzip" THEN ImportFailure("not a zip", f)
    ELSE IF z.kind = "badzip" THEN ImportFailure("corrupted", f)
    ELSE IF ~HasModelFiles(z.entries) THEN ImportFailure("invalid model zip", f)
    ELSE LET m == MakeDirs(f, outputDir)
         IN  IF ~m.ok THEN ImportFailure("import failed", f)
             ELSE IF Cardinality(TopDirs(z.entries)) = 1
                  THEN ImportSingle(m.fs, z, outputDir)
                  ELSE ImportFlat(m.fs, z, outputDir)

----------------------------------------------------------------------------
(* The model store: state and operations *)

OutputRoot == <<<<"models">>>>     \* app.DEFAULT_OUTPUT_DIR
FreshRoot == <<<<"fresh">>>>       \* another output_dir, for a first import

Foo == <<"foo">>
Bar == <<"bar">>
Sub == <<"sub">>
Up == <<"up">>
Readme == <<"readme">>
Weights == <<"w", ".safetensors">>

\* [op, arg, success, message, path, value, raised]: path is the zip's
\* source, the import's model_path or the conversion's output_path; value
\* the list list_converted_models returned; raised the class of the exception
\* the operation let out instead of returning, "" when it returned
Result(op, arg, success, message, path, value) ==
    [op |-> op, arg |-> arg, success |-> success, message |-> message,
     path |-> path, value |-> value, raised |-> ""]

NoResult == Result("none", <<>>, FALSE, "", <<>>, <<>>)

NoRequest == [model_path |-> EmptyStr, output_name |-> EmptyStr, quantization |-> "4-bit"]
NoEngine == [invoked |-> FALSE, hf_path |-> EmptyStr, mlx_path |-> <<>>, q_bits |-> 0]
NoCache == [path |-> <<>>, model |-> 0, tokenizer |-> 0]    \* all three None

\* the callers of load_model, generate_text and clear_cache
Callers == {1, 2}

\* a caller that is in no call
Idle == [pc |-> "idle", op |-> "none", path |-> EmptyStr, n |-> 0,
         model |-> 0, tokenizer |-> 0]
NoCalls == [t \in Callers |-> Idle]

\* a file system holding the files F with the sizes sz, and the directories
\* these need
MkStore(F, sz, extraDirs) ==
    [dirs  |-> {Cwd} \cup extraDirs \cup UNION {Prefixes(Parent(q)) : q \in F},
     files |-> [q \in F |-> sz[q]]]

Consistent(F) == \A p, q \in F : ~IsProperPrefix(p, q)

\* list_converted_models(output_dir), as the app's refresh calls it
Discover(root) ==
    /\ \E l \in ListConvertedModels(fs, root) :
         result' = Result("list", root, TRUE, "", <<>>, l)
    /\ UNCHANGED <<fs, archive, request, engine, cache, loads, calls, serialized>>

\* zip_model(model_path); the archive is written to a fresh temporary place
Export(m) ==
    LET r == ZipModel(fs, m)
    IN  /\ archive' = IF r.success THEN r.zip ELSE archive
        /\ result' = Result("zip", m, r.success, r.message,
                             IF r.success THEN m ELSE <<>>, <<>>)
        /\ UNCHANGED <<fs, request, engine, cache, loads, calls, serialized>>

\* import_model_zip(zip_path, output_dir) of the archive at hand
Import(root) ==
    LET r == ImportModelZip(fs, archive, root)
    IN  /\ fs' = r.fs
        /\ result' = Result("import", root, r.success, r.message, r.model_path, <<>>)
        /\ UNCHANGED <<archive, request, engine, cache, loads, calls, serialized>>

----------------------------------------------------------------------------
(* SpecExport: a store drawn from the trees of at most MaxTreeFiles files;
   discovery, export of a directory of it, import of the exported archive
   into another, fresh output directory *)

MaxTreeFiles == 3
MaxFileSize == 2

FooDir == Append(OutputRoot, Foo)
FooSubDir == Append(FooDir, Sub)
BarDir == Append(OutputRoot, Bar)

TreeFiles ==
    {Append(OutputRoot, ConfigJson), Append(OutputRoot, Readme),
     Append(FooDir, ConfigJson), Append(FooDir, Weights), Append(FooDir, Readme),
     Append(FooSubDir, ConfigJson), Append(FooSubDir, Readme),
     Append(BarDir, ConfigJson)}

\* the sizes of a tree's files: all different, in units of k bytes
TreeSizes(F, k) ==
    [q \in F |-> k * (2 * Len(q) + (IF BaseName(q) = ConfigJson THEN 0 ELSE 1))]

ExportArgs == {OutputRoot, FooDir, FooSubDir, BarDir, Append(OutputRoot, ConfigJson)}

\* the runs of this specification import into an output directory that is
\* absent or empty
IsFresh(f, root) == ChildDirs(f, root) = {} /\ ChildFiles(f, root) = {}

InitExport ==
    /\ \E F \in {S \in SUBSET TreeFiles : Cardinality(S) <= MaxTreeFiles} :
         \E k \in 1..MaxFileSize :
           \E extra \in {{}, {FreshRoot}, {OutputRoot}} :
             fs = MkStore(F, TreeSizes(F, k), extra)
    /\ archive = NoZip
    /\ request = NoRequest
    /\ result = NoResult
    /\ engine = NoEngine
    /\ cache = NoCache
    /\ loads = <<>>
    /\ calls = NoCalls
    /\ serialized = TRUE

NextExport ==
    \/ Discover(OutputRoot)
    \/ \E m \in ExportArgs : Export(m)
    \/ IsFresh(fs, FreshRoot) /\ Import(FreshRoot)

SpecExport == InitExport /\ [][NextExport]_vars

----------------------------------------------------------------------------
(* SpecImport: an uploaded file and a store with at most MaxStoreFiles files;
   import into the output directory (again and again: a retry), discovery,
   export *)

MaxEntries == 2
MaxStoreFiles == 2

Name(segs) == JoinSlash(segs)

UploadEntries ==
    {[name |-> Name(<<Foo, ConfigJson>>), size |-> 1],
     [name |-> Name(<<Foo, Sub, ConfigJson>>), size |-> 1],
     [name |-> Name(<<Foo, <<"x", "config.json">>>>), size |-> 1],
     [name |-> Name(<<Bar, Weights>>), size |-> 1],
     [name |-> Name(<<ParDir, <<"w", ".npz">>>>), size |-> 1],
     [name |-> Foo \o <<Slash>>, size |-> 0],
     [name |-> Foo, size |-> 1],
     [name |-> ConfigJson, size |-> 1],
     [name |-> Readme, size |-> 1]}

SeqsUpTo(S, n) == UNION {[1..k -> S] : k \in 0..n}

Uploads ==
    {[kind |-> "zip", stem |-> st, entries |-> es] :
        st \in {Foo, Up}, es \in SeqsUpTo(UploadEntries, MaxEntries)}
    \cup {[kind |-> k, stem |-> Up, entries |-> <<>>] : k \in {"none", "notzip", "badzip"}}

StoreFiles ==
    {Append(FooDir, ConfigJson), Append(OutputRoot, Readme),
     Append(Append(OutputRoot, Up), Weights), Append(OutputRoot, Foo)}

InitImport ==
    /\ \E F \in {S \in SUBSET StoreFiles : Cardinality(S) <= MaxStoreFiles /\ Consistent(S)} :
         \E extra \in {{}, {OutputRoot}} :
           fs = MkStore(F, [q \in F |-> 2], extra)
    /\ archive \in Uploads
    /\ request = NoRequest
    /\ result = NoResult
    /\ engine = NoEngine
    /\ cache = NoCache
    /\ loads = <<>>
    /\ calls = NoCalls
    /\ serialized = TRUE

NextImport ==
    \/ Import(OutputRoot)
    \/ Discover(OutputRoot)

SpecImport == InitImport /\ [][NextImport]_vars

----------------------------------------------------------------------------
(* converter.validate_model_path and converter.convert_model *)

\* a faulty variant: the test of the pieces left out
ValidateNoParts(model_path) ==
    IF model_path = EmptyStr \/ Strip(model_path) = EmptyStr
    THEN [valid |-> FALSE, error |-> "empty"]
    ELSE IF ~Contains(Strip(model_path), Slash)
         THEN [valid |-> FALSE, error |-> "format"]
         ELSE [valid |-> TRUE, error |-> ""]

\* (is_valid, error_message)
ValidateModelPath(model_path) ==
    IF model_path = EmptyStr \/ Strip(model_path) = EmptyStr
    THEN [valid |-> FALSE, error |-> "empty"]
    ELSE LET stripped == Strip(model_path)
             parts == SplitSlash(stripped)
         IN  IF ~Contains(stripped, Slash)
             THEN [valid |-> FALSE, error |-> "format"]
             ELSE IF Len(parts) # 2 \/ parts[1] = EmptyStr \/ parts[2] = EmptyStr
             THEN [valid |-> FALSE, error |-> "one separator"]
             ELSE [valid |-> TRUE, error |-> ""]

Quantizations == {"4-bit", "8-bit", "bf16"}

\* quant_map
QuantMap(q) == CASE q = "4-bit" -> <<"q", "4">> [] q = "8-bit" -> <<"q", "8">> [] OTHER -> <<>>

\* int(quant[1]) for a quantization that has bits, 0 for none
QBits(q) == CASE q = "4-bit" -> 4 [] q = "8-bit" -> 8 [] OTHER -> 0

\* the output name of a request whose own is blank
DefaultOutputName(model_path, q) ==
    LET parts == SplitSlash(model_path)
        suffix == IF QuantMap(q) # <<>> THEN <<"-">> \o QuantMap(q) ELSE <<"-bf16">>
    IN  parts[Len(parts)] \o suffix

\* converter.get_output_path of the name the request resolves to
ResolvedOutputPath(req, output_dir) ==
    Append(output_dir,
           IF Strip(req.output_name) = EmptyStr
           THEN DefaultOutputName(req.model_path, req.quantization)
           ELSE req.output_name)

\* 2 GiB, counted in whole MiB (free < 2 * 1024^3 bytes iff free \div 2^20 < 2 * 1024)
MinFreeMiB == 2 * Kib

\* what the engine leaves at mlx_path: the whole model, or a part of it
EngineOutput(f, mlx_path, whole) ==
    LET g == [f EXCEPT !.dirs = @ \cup Prefixes(mlx_path)]
        h == WriteFile(g, Append(mlx_path, Weights), 2)
    IN  IF whole THEN WriteFile(h, Append(mlx_path, ConfigJson), 1) ELSE h

\* the friendly message of an exception whose text holds the words in msg
Friendly(msg) ==
    IF "404" \in msg \/ "not found" \in msg THEN "not found"
    ELSE IF "connection" \in msg \/ "network" \in msg THEN "network"
    ELSE IF "disk" \in msg \/ "space" \in msg THEN "disk space"
    ELSE "conversion failed"

ConvertFailure(msg, path, f, eng) ==
    [success |-> FALSE, message |-> msg, output_path |-> path, size |-> <<>>,
     fs |-> f, engine |-> eng]

\* the try block of convert_model.  env.outcome is what mlx_lm does:
\*   "missing"      the import of mlx_lm raises ImportError, convert is not called
\*   "ok"           convert returns, the model written
\*   "raise"        convert raises an Exception whose text holds env.msg
\*   "importerror"  convert raises ImportError (a module it needs is missing)
\* and env.partial whether a raising convert had made the output directory.
RunConversion(f, req, output_dir, env) ==
    LET output_path == ResolvedOutputPath(req, output_dir)
        called == [invoked |-> TRUE, hf_path |-> req.model_path,
                   mlx_path |-> output_path, q_bits |-> QBits(req.quantization)]
        left == IF env.partial THEN EngineOutput(f, output_path, FALSE) ELSE f
        done == EngineOutput(f, output_path, TRUE)
    IN  CASE env.outcome = "missing" ->
                ConvertFailure("mlx-lm is not installed", <<>>, f, NoEngine)
          [] env.outcome = "ok" ->
                [success |-> TRUE, message |-> "converted", output_path |-> output_path,
                 size |-> FormatSize(GetModelSize(done, output_path)),
                 fs |-> done, engine |-> called]
          [] env.outcome = "importerror" ->
                ConvertFailure("mlx-lm is not installed", <<>>, left, called)
          [] OTHER ->
                ConvertFailure(Friendly(env.msg), <<>>,
                               IF Exists(left, output_path) THEN RmTree(left, output_path)
                               ELSE left,
                               called)

\* a faulty variant: the existing output is not looked for
ConvertOverwrite(f, req, output_dir, env) ==
    IF ~ValidateModelPath(req.model_path).valid
    THEN ConvertFailure(ValidateModelPath(req.model_path).error, <<>>, f, NoEngine)
    ELSE IF req.quantization \notin Quantizations
    THEN ConvertFailure("invalid quantization", <<>>, f, NoEngine)
    ELSE RunConversion(MakeDirs(f, output_dir).fs, req, output_dir, env)

\* [success, message, output_path, size] and the file system and the engine
\* call the call leaves; env.free is the free space in MiB, -1 when disk_usage
\* raises OSError
ConvertModel(f, req, output_dir, env) ==
    IF ~ValidateModelPath(req.model_path).valid
    THEN ConvertFailure(ValidateModelPath(req.model_path).error, <<>>, f, NoEngine)
    ELSE IF req.quantization \notin Quantizations
    THEN ConvertFailure("invalid quantization", <<>>, f, NoEngine)
    ELSE IF Exists(f, ResolvedOutputPath(req, output_dir))
    THEN ConvertFailure("already exists", ResolvedOutputPath(req, output_dir), f, NoEngine)
    ELSE IF env.free >= 0 /\ env.free < MinFreeMiB
    THEN ConvertFailure("low disk space", <<>>, f, NoEngine)
    ELSE RunConversion(MakeDirs(f, output_dir).fs, req, output_dir, env)

\* handle_convert -> convert_model
Convert(env) ==
    LET r == ConvertModel(fs, request, OutputRoot, env)
    IN  /\ fs' = r.fs
        /\ engine' = r.engine
        /\ result' = Result("convert", request, r.success, r.message, r.output_path, r.size)
        /\ UNCHANGED <<archive, request, cache, loads, calls, serialized>>

----------------------------------------------------------------------------
(* SpecConvert: a conversion request and the store it meets; the conversion,
   run again and again (a second run meets what the first one left) *)

MaxIdLen == 4

IdTokens == {"m", Slash, Space}

ModelPaths ==
    SeqsUpTo(IdTokens, MaxIdLen)
    \cup {<<"org", Slash, "m", Slash, "m">>, <<Space, "org", Slash, "m", Space>>,
          <<"invalidpath">>}

Requests ==
    [model_path : ModelPaths, output_name : {EmptyStr, <<Space>>, Foo},
     quantization : Quantizations \cup {"9-bit"}]

EngineMessages == {{}, {"404"}, {"network"}, {"space"}, {"404", "network"}}

Environments ==
    [free : {-1, MinFreeMiB - 1, MinFreeMiB}, outcome : {"ok", "missing"},
     partial : {FALSE}, msg : {{}}]
    \cup [free : {MinFreeMiB}, outcome : {"importerror"}, partial : BOOLEAN, msg : {{}}]
    \cup [free : {MinFreeMiB}, outcome : {"raise"}, partial : BOOLEAN,
          msg : EngineMessages]

InitConvert ==
    /\ \E F \in {{}, {Append(FooDir, ConfigJson)}} :
         \E extra \in {{}, {OutputRoot}} :
           fs = MkStore(F, [q \in F |-> 2], extra)
    /\ archive = NoZip
    /\ request \in Requests
    /\ result = NoResult
    /\ engine = NoEngine
    /\ cache = NoCache
    /\ loads = <<>>
    /\ calls = NoCalls
    /\ serialized = TRUE

NextConvert ==
    \/ \E env \in Environments : Convert(env)

SpecConvert == InitConvert /\ [][NextConvert]_vars

----------------------------------------------------------------------------
(* tester.load_model, tester.generate_text, tester.clear_cache *)

None == <<>>
Some(x) == <<x>>

\* pathlib.Path(str): the pieces of the string, empty ones and "." dropped
PathOf(str) == SelectSeq(SplitSlash(str), LAMBDA x : x \notin {EmptyStr, CurDir})

\* a name of more bytes than the file system takes in one name (NAME_MAX)
LongName == <<"name256">>

\* os.stat of the path fails with ENAMETOOLONG.  Path.exists() lets that
\* OSError out where pathlib re-raises the errors it does not know
\* (env.stat = "raise") and answers False where it swallows every OSError
\* (env.stat = "false").
NameTooLong(path) == \E i \in 1..Len(path) : path[i] = LongName

\* the handles the n-th call of load() returns
ModelHandle(n) == 2 * n - 1
TokenizerHandle(n) == 2 * n

\* a faulty variant: the cached path is not compared
CacheHitAnyPath(c, model_path) == c.model # 0

\* the test load_model starts with
CacheHit(c, model_path) == c.path = Some(model_path) /\ c.model # 0

\* the two path checks of load_model: the class of the exception they end
\* in, "" when they pass
PathCheck(f, model_path, env) ==
    IF NameTooLong(PathOf(model_path)) /\ env.stat = "raise" THEN "OSError"
    ELSE IF ~Exists(f, PathOf(model_path)) THEN "FileNotFoundError"
    ELSE IF ~IsDir(f, PathOf(model_path)) THEN "ValueError"
    ELSE ""

\* load_model: raised is "" when it returns (model, tokenizer), else the
\* exception's class.  env.load is what mlx_lm does: "missing" (its import
\* raises ImportError), "ok", or "raise" (load raises).
LoadModel(f, c, ls, model_path, env) ==
    IF CacheHit(c, model_path)
    THEN [raised |-> "", model |-> c.model, tokenizer |-> c.tokenizer,
          cache |-> c, loads |-> ls]
    ELSE IF PathCheck(f, model_path, env) = "OSError"
    THEN [raised |-> "OSError", model |-> 0, tokenizer |-> 0,
          cache |-> c, loads |-> ls]
    ELSE IF PathCheck(f, model_path, env) = "FileNotFoundError"
    THEN [raised |-> "FileNotFoundError", model |-> 0, tokenizer |-> 0,
          cache |-> c, loads |-> ls]
    ELSE IF PathCheck(f, model_path, env) = "ValueError"
    THEN [raised |-> "ValueError", model |-> 0, tokenizer |-> 0,
          cache |-> c, loads |-> ls]
    ELSE IF env.load = "missing"
    THEN [raised |-> "RuntimeError: not installed", model |-> 0, tokenizer |-> 0,
          cache |-> c, loads |-> ls]
    ELSE IF env.load = "raise"
    THEN [raised |-> "RuntimeError: failed to load", model |-> 0, tokenizer |-> 0,
          cache |-> c, loads |-> Append(ls, [path |-> model_path, ok |-> FALSE])]
    ELSE LET n == Len(ls) + 1
         IN  [raised |-> "", model |-> ModelHandle(n), tokenizer |-> TokenizerHandle(n),
              cache |-> [path |-> Some(model_path), model |-> ModelHandle(n),
                         tokenizer |-> TokenizerHandle(n)],
              loads |-> Append(ls, [path |-> model_path, ok |-> TRUE])]

\* the exceptions of load_model that generate_text catches
CaughtByGenerate(raised) ==
    raised \in {"FileNotFoundError", "ValueError", "RuntimeError: not installed",
                "RuntimeError: failed to load"}

\* generate_text: [success, response, error] and the cache and the engine
\* calls it leaves; raised is the class of the exception it lets out, and
\* then it returns nothing.  env.generate is "ok" or "raise" (generate, or
\* its import, raises).
GenerateText(f, c, ls, model_path, prompt, env) ==
    IF prompt = EmptyStr \/ Strip(prompt) = EmptyStr
    THEN [success |-> FALSE, response |-> <<>>, error |-> "empty prompt",
          raised |-> "", cache |-> c, loads |-> ls]
    ELSE IF model_path = EmptyStr \/ Strip(model_path) = EmptyStr
    THEN [success |-> FALSE, response |-> <<>>, error |-> "no model path",
          raised |-> "", cache |-> c, loads |-> ls]
    ELSE LET l == LoadModel(f, c, ls, model_path, env)
         IN  IF l.raised # "" /\ CaughtByGenerate(l.raised)
             THEN [success |-> FALSE, response |-> <<>>, error |-> l.raised,
                   raised |-> "", cache |-> l.cache, loads |-> l.loads]
             ELSE IF l.raised # ""
             THEN [success |-> FALSE, response |-> <<>>, error |-> "",
                   raised |-> l.raised, cache |-> l.cache, loads |-> l.loads]
             ELSE IF env.generate = "raise"
             THEN [success |-> FALSE, response |-> <<>>, error |-> "generation failed",
                   raised |-> "", cache |-> l.cache, loads |-> l.loads]
             ELSE [success |-> TRUE, response |-> <<l.model, l.tokenizer>>, error |-> "",
                   raised |-> "", cache |-> l.cache, loads |-> l.loads]

\* a call of load_model
Load(model_path, env) ==
    LET l == LoadModel(fs, cache, loads, model_path, env)
    IN  /\ cache' = l.cache
        /\ loads' = l.loads
        /\ result' = [Result("load", model_path, l.raised = "", l.raised, <<>>,
                             <<l.model, l.tokenizer>>) EXCEPT !.raised = l.raised]
        /\ UNCHANGED <<fs, archive, request, engine, calls, serialized>>

\* handle_generate -> generate_text; the response is kept as the handles the
\* engine was given
Generate(model_path, prompt, env) ==
    LET g == GenerateText(fs, cache, loads, model_path, prompt, env)
    IN  /\ cache' = g.cache
        /\ loads' = g.loads
        /\ result' = [Result("generate", model_path, g.success, g.error, <<>>,
                             g.response) EXCEPT !.raised = g.raised]
        /\ UNCHANGED <<fs, archive, request, engine, calls, serialized>>

\* clear_cache
ClearCache ==
    /\ cache' = [path |-> None, model |-> 0, tokenizer |-> 0]
    /\ result' = Result("clear", <<>>, TRUE, "", <<>>, <<>>)
    /\ UNCHANGED <<fs, archive, request, engine, loads, calls, serialized>>

----------------------------------------------------------------------------
(* SpecCache: calls of load_model, generate_text and clear_cache, one at a
   time, on a store that holds the models foo and bar; at most MaxLoads
   calls reach the engine's load *)

MaxLoads == 3

Str(path) == JoinSlash(path)

PathA == Str(FooDir)
PathB == Str(BarDir)

ModelPathArgs ==
    {PathA, PathB, Str(Append(OutputRoot, Sub)), Str(Append(FooDir, ConfigJson)),
     Str(Append(OutputRoot, LongName)), <<Space>>}

Prompts == {<<"hi">>, <<Space>>}

LoadEnvironments ==
    [load : {"ok", "raise", "missing"}, generate : {"ok", "raise"}, stat : {"raise", "false"}]

InitCache ==
    /\ fs = MkStore({Append(FooDir, ConfigJson), Append(BarDir, ConfigJson)},
                    [q \in {Append(FooDir, ConfigJson), Append(BarDir, ConfigJson)} |-> 1],
                    {})
    /\ archive = NoZip
    /\ request = NoRequest
    /\ result = NoResult
    /\ engine = NoEngine
    /\ cache = NoCache
    /\ loads = <<>>
    /\ calls = NoCalls
    /\ serialized = TRUE

NextCache ==
    \/ \E p \in ModelPathArgs, env \in LoadEnvironments :
          Len(loads) < MaxLoads /\ Load(p, env)
    \/ \E p \in ModelPathArgs, q \in Prompts, env \in LoadEnvironments :
          Len(loads) < MaxLoads /\ Generate(p, q, env)
    \/ ClearCache

SpecCache == InitCache /\ [][NextCache]_vars

----------------------------------------------------------------------------
(* load_model, generate_text and clear_cache line by line.  Each caller is
   at one line of one call; a step is one read or one write of an item of
   _model_cache, or the part of a call between two of them.  calls[t].n is
   the number of the engine's load() the caller is in or came out of,
   calls[t].model and calls[t].tokenizer are its local variables. *)

\* the calls of load() the engine takes
MaxEngineLoads == 2

Active(t) == calls[t].pc # "idle"

\* what the call of caller t hands back: load_model's return or exception,
\* or what generate_text makes of it and of the engine's generate()
Outcome(t, raised, model, tokenizer, env) ==
    LET c == calls[t]
    IN  IF c.op = "load"
        THEN [Result("load", c.path, raised = "", raised, <<>>, <<model, tokenizer>>)
                 EXCEPT !.raised = raised]
        ELSE IF raised # "" /\ CaughtByGenerate(raised)
        THEN Result("generate", c.path, FALSE, raised, <<>>, <<>>)
        ELSE IF raised # ""
        THEN [Result("generate", c.path, FALSE, "", <<>>, <<>>) EXCEPT !.raised = raised]
        ELSE IF env.generate = "raise"
        THEN Result("generate", c.path, FALSE, "generation failed", <<>>, <<>>)
        ELSE Result("generate", c.path, TRUE, "", <<>>, <<model, tokenizer>>)

\* the caller's step to another line
Goto(t, pc) == calls' = [calls EXCEPT ![t].pc = pc]

\* the call of caller t ends
Return(t) == calls' = [calls EXCEPT ![t] = Idle]

\* a caller enters load_model(p), generate_text(p, prompt) with a prompt
\* that is not blank, or clear_cache(); callers that are serialized wait for
\* the call under way to end
Call(t, op, p) ==
    /\ ~Active(t)
    /\ serialized => \A u \in Callers : ~Active(u)
    /\ calls' = [calls EXCEPT ![t] = [Idle EXCEPT !.op = op, !.path = p,
                     !.pc = IF op = "clear" THEN "clear_path" ELSE "test_path"]]
    /\ UNCHANGED <<fs, archive, request, result, engine, cache, loads, serialized>>

\* load_model, the first operand of its test: _model_cache["path"] == model_path
TestPath(t) ==
    /\ calls[t].pc = "test_path"
    /\ Goto(t, IF cache.path = Some(calls[t].path) THEN "test_model" ELSE "path_check")
    /\ UNCHANGED <<fs, archive, request, result, engine, cache, loads, serialized>>

\* the second operand: _model_cache["model"] is not None
TestModel(t) ==
    /\ calls[t].pc = "test_model"
    /\ Goto(t, IF cache.model # 0 THEN "read_model" ELSE "path_check")
    /\ UNCHANGED <<fs, archive, request, result, engine, cache, loads, serialized>>

\* the return of the cached handles reads _model_cache["model"] ...
ReadModel(t) ==
    /\ calls[t].pc = "read_model"
    /\ calls' = [calls EXCEPT ![t].pc = "read_tokenizer", ![t].model = cache.model]
    /\ UNCHANGED <<fs, archive, request, result, engine, cache, loads, serialized>>

\* ... and then _model_cache["tokenizer"]
ReadTokenizer(t, env) ==
    /\ calls[t].pc = "read_tokenizer"
    /\ result' = Outcome(t, "", calls[t].model, cache.tokenizer, env)
    /\ Return(t)
    /\ UNCHANGED <<fs, archive, request, engine, cache, loads, serialized>>

\* the path checks, the import of mlx_lm and the call of load(): the call
\* ends in an exception, or the engine starts its n-th load
EnterLoad(t, env) ==
    /\ calls[t].pc = "path_check"
    /\ Len(loads) < MaxEngineLoads
    /\ LET raised == IF PathCheck(fs, calls[t].path, env) # ""
                      THEN PathCheck(fs, calls[t].path, env)
                      ELSE IF env.load = "missing" THEN "RuntimeError: not installed"
                      ELSE ""
       IN  IF raised # ""
           THEN /\ result' = Outcome(t, raised, 0, 0, env)
                /\ Return(t)
                /\ loads' = loads
           ELSE /\ loads' = Append(loads, [path |-> calls[t].path, ok |-> env.load = "ok"])
                /\ calls' = [calls EXCEPT ![t].pc = "loading", ![t].n = Len(loads) + 1]
                /\ result' = result
    /\ UNCHANGED <<fs, archive, request, engine, cache, serialized>>

\* the engine's load() returns its handles, or raises
LeaveLoad(t, env) ==
    /\ calls[t].pc = "loading"
    /\ IF loads[calls[t].n].ok
       THEN /\ calls' = [calls EXCEPT ![t].pc = "write_path",
                                       ![t].model = ModelHandle(calls[t].n),
                                       ![t].tokenizer = TokenizerHandle(calls[t].n)]
            /\ result' = result
       ELSE /\ result' = Outcome(t, "RuntimeError: failed to load", 0, 0, env)
            /\ Return(t)
    /\ UNCHANGED <<fs, archive, request, engine, cache, loads, serialized>>

\* _model_cache["path"] = model_path
WritePath(t) ==
    /\ calls[t].pc = "write_path"
    /\ cache' = [cache EXCEPT !.path = Some(calls[t].path)]
    /\ Goto(t, "write_model")
    /\ UNCHANGED <<fs, archive, request, result, engine, loads, serialized>>

\* _model_cache["model"] = model
WriteModel(t) ==
    /\ calls[t].pc = "write_model"
    /\ cache' = [cache EXCEPT !.model = calls[t].model]
    /\ Goto(t, "write_tokenizer")
    /\ UNCHANGED <<fs, archive, request, result, engine, loads, serialized>>

\* a faulty variant: the tokenizer of the load is not put in the cache
WriteTokenizerNot(t, env) ==
    /\ calls[t].pc = "write_tokenizer"
    /\ cache' = cache
    /\ result' = Outcome(t, "", calls[t].model, calls[t].tokenizer, env)
    /\ Return(t)
    /\ UNCHANGED <<fs, archive, request, engine, loads, serialized>>

\* _model_cache["tokenizer"] = tokenizer, and the return of the new handles
WriteTokenizer(t, env) ==
    /\ calls[t].pc = "write_tokenizer"
    /\ cache' = [cache EXCEPT !.tokenizer = calls[t].tokenizer]
    /\ result' = Outcome(t, "", calls[t].model, calls[t].tokenizer, env)
    /\ Return(t)
    /\ UNCHANGED <<fs, archive, request, engine, loads, serialized>>

\* clear_cache: _model_cache["path"] = None
ClearPath(t) ==
    /\ calls[t].pc = "clear_path"
    /\ cache' = [cache EXCEPT !.path = None]
    /\ Goto(t, "clear_model")
    /\ UNCHANGED <<fs, archive, request, result, engine, loads, serialized>>

\* _model_cache["model"] = None
ClearModel(t) ==
    /\ calls[t].pc = "clear_model"
    /\ cache' = [cache EXCEPT !.model = 0]
    /\ Goto(t, "clear_tokenizer")
    /\ UNCHANGED <<fs, archive, request, result, engine, loads, serialized>>

\* _model_cache["tokenizer"] = None
ClearTokenizer(t) ==
    /\ calls[t].pc = "clear_tokenizer"
    /\ cache' = [cache EXCEPT !.tokenizer = 0]
    /\ result' = Result("clear", <<>>, TRUE, "", <<>>, <<>>)
    /\ Return(t)
    /\ UNCHANGED <<fs, archive, request, engine, loads, serialized>>

----------------------------------------------------------------------------
(* SpecCallers: two callers of the tester on a store that holds the models
   foo and bar, serialized or not; at most MaxEngineLoads calls reach the
   engine's load *)

CallerPaths == {PathA, PathB}

CallerEnvironments == [load : {"ok", "raise", "missing"}, generate : {"ok", "raise"},
                       stat : {"raise"}]

InitCallers ==
    /\ fs = MkStore({Append(FooDir, ConfigJson), Append(BarDir, ConfigJson)},
                    [q \in {Append(FooDir, ConfigJson), Append(BarDir, ConfigJson)} |-> 1],
                    {})
    /\ archive = NoZip
    /\ request = NoRequest
    /\ result = NoResult
    /\ engine = NoEngine
    /\ cache = NoCache
    /\ loads = <<>>
    /\ calls = NoCalls
    /\ serialized \in BOOLEAN

NextCallers ==
    \E t \in Callers :
        \/ \E op \in {"load", "generate"}, p \in CallerPaths : Call(t, op, p)
        \/ Call(t, "clear", EmptyStr)
        \/ TestPath(t)
        \/ TestModel(t)
        \/ ReadModel(t)
        \/ \E env \in CallerEnvironments : ReadTokenizer(t, env)
        \/ \E env \in CallerEnvironments : EnterLoad(t, env)
        \/ \E env \in CallerEnvironments : LeaveLoad(t, env)
        \/ WritePath(t)
        \/ WriteModel(t)
        \/ \E env \in CallerEnvironments : WriteTokenizer(t, env)
        \/ ClearPath(t)
        \/ ClearModel(t)
        \/ ClearTokenizer(t)

SpecCallers == InitCallers /\ [][NextCallers]_vars

----------------------------------------------------------------------------
(* Claims about the model store *)

ListedPaths(v) == {v[i].path : i \in 1..Len(v)}

\* C1: list_converted_models never reports a directory below one it reports:
\* the reported directories are exactly the directories under the root that
\* match the signature and have no matching directory above them, so a
\* subdirectory of a reported directory is left out even when it holds
\* config.json.
C1_NoEntryBelowAnEntry ==
    result.op = "list" =>
        LET paths == ListedPaths(result.value)
            under == {d \in fs.dirs : IsPrefix(result.arg, d)}
            top(d) == /\ HasModelSignature(fs, d)
                      /\ \A a \in under : IsProperPrefix(a, d) => ~HasModelSignature(fs, a)
        IN  /\ \A p, q \in paths : ~IsProperPrefix(p, q)
            /\ paths = {d \in under : top(d)}
            /\ Len(result.value) = Cardinality(paths)

\* the nested-shard case: foo is reported and foo/sub holds config.json
C1_Witness ==
    /\ result.op = "list"
    /\ FooDir \in ListedPaths(result.value)
    /\ IsFile(fs, Append(FooSubDir, ConfigJson))

\* the destination import_model_zip resolves for a readable archive
ResolvedDest(z, root) ==
    IF Cardinality(TopDirs(z.entries)) = 1
    THEN JoinPath(root, CHOOSE s \in TopDirs(z.entries) : TRUE)
    ELSE JoinPath(root, z.stem)

ValidModelZip(z) == z.kind = "zip" /\ HasModelFiles(z.entries)

\* the path an entry is written to below base: its name's pieces, the empty
\* ones and the dots left out
EntryPath(base, e) ==
    base \o SelectSeq(SplitSlash(e.name), LAMBDA x : x \notin {EmptyStr, CurDir, ParDir})

ImportStep == result'.op = "import" /\ archive' = archive

\* C2: a successful import of a valid model zip with exactly one top-level
\* segment s returns outputRoot/s and has every entry at its own name under
\* outputRoot; with none or several it returns outputRoot/<stem> and has
\* every entry under that directory.  An import of a valid model zip fails
\* only by a destination that exists or by an extraction that raises.
C2_DestinationByTopLevelSegments ==
    [][(ImportStep /\ ValidModelZip(archive)) =>
        LET root == result'.arg
            z == archive
            tops == TopDirs(z.entries)
            dest == IF Cardinality(tops) = 1
                    THEN JoinPath(root, CHOOSE s \in tops : TRUE)
                    ELSE JoinPath(root, z.stem)
            base == IF Cardinality(tops) = 1 THEN root ELSE dest
            made == fs.dirs \cup Prefixes(root)
        IN  /\ result'.success =>
                /\ result'.path = dest
                /\ IsDir(fs', dest)
                /\ \A i \in 1..Len(z.entries) :
                      IF IsDirEntry(z.entries[i])
                      THEN IsDir(fs', EntryPath(base, z.entries[i]))
                      ELSE IsFile(fs', EntryPath(base, z.entries[i]))
                /\ Cardinality(tops) # 1 =>
                      \A q \in (DOMAIN fs'.files \ DOMAIN fs.files) \cup (fs'.dirs \ made) :
                          IsPrefix(dest, q)
            /\ ~result'.success =>
                /\ result'.message \in {"already exists", "import failed"}
                /\ result'.message = "already exists" <=>
                      (dest \in made \/ IsFile(fs, dest))
    ]_vars

\* a flat archive with a loose config.json imported to outputRoot/<stem>
C2_Witness ==
    /\ result.op = "import" /\ result.success
    /\ TopDirs(archive.entries) = {}
    /\ result.path = Append(OutputRoot, archive.stem)
    /\ IsFile(fs, Append(result.path, ConfigJson))

\* C3: an import whose resolved destination exists fails, extracts nothing
\* and changes no file; the one thing it may make is the output directory
\* itself, so a destination inside the output directory is left as it was.
C3_CollisionLeavesStore ==
    [][(ImportStep /\ ValidModelZip(archive)
            /\ Exists([fs EXCEPT !.dirs = @ \cup Prefixes(result'.arg)],
                      ResolvedDest(archive, result'.arg))) =>
        /\ ~result'.success
        /\ result'.message = "already exists"
        /\ fs'.files = fs.files
        /\ fs'.dirs = fs.dirs \cup Prefixes(result'.arg)
        /\ Exists(fs, result'.arg) => fs' = fs
    ]_vars

\* the import of an archive with top-level folder foo into a store that
\* holds foo failed
C3_Witness ==
    /\ result.op = "import" /\ ~result.success
    /\ result.message = "already exists"
    /\ TopDirs(archive.entries) = {Foo}
    /\ IsFile(fs, Append(FooDir, ConfigJson))
    /\ fs.files[Append(FooDir, ConfigJson)] = 2

\* C4: export then import into a fresh output directory: zip_model of a
\* directory that holds config.json or a weight file succeeds, and the
\* import of its archive succeeds and gives a directory of the same base
\* name with the same relative files, each of the same size, and the same
\* total size.
C4_ExportImportRoundTrip ==
    [][/\ (result'.op = "zip" /\ IsDir(fs, result'.arg)
              /\ \E q \in ChildFiles(fs, result'.arg) :
                    \/ BaseName(q) = ConfigJson
                    \/ PathSuffix(BaseName(q)) \in {ExtSafetensors, ExtNpz})
          => result'.success
       /\ (result.op = "zip" /\ result.success /\ result'.op = "import"
              /\ IsFresh(fs, result'.arg))
          => /\ result'.success
             /\ result'.path = Append(result'.arg, BaseName(result.path))
             /\ RelFiles(fs', result'.path) = RelFiles(fs, result.path)
             /\ GetModelSize(fs', result'.path) = GetModelSize(fs, result.path)
    ]_vars

\* foo, with a file in foo/sub, was exported and imported as fresh/foo
C4_Witness ==
    /\ result.op = "import" /\ result.success
    /\ result.path = Append(FreshRoot, Foo)
    /\ \E q \in FilesUnder(fs, Append(result.path, Sub)) : TRUE
    /\ RelFiles(fs, result.path) = RelFiles(fs, FooDir)

\* C5: after a successful import, list_converted_models of the output
\* directory reports the directory the import returned.
C5_ImportedIsListed ==
    [][(result.op = "import" /\ result.success
            /\ result'.op = "list" /\ result'.arg = result.arg) =>
        result.path \in ListedPaths(result'.value)
    ]_vars

----------------------------------------------------------------------------
(* Claims about the conversion gateway *)

ConvertStep == result'.op = "convert" /\ request' = request

ResolvableRequest(req) ==
    ValidateModelPath(req.model_path).valid /\ req.quantization \in Quantizations

\* C6: a conversion whose resolved output path exists returns a failure,
\* does not call the engine and leaves the file system as it was.
C6_NoOverwrite ==
    [][(ConvertStep /\ ResolvableRequest(request)
            /\ Exists(fs, ResolvedOutputPath(request, OutputRoot))) =>
        /\ ~result'.success
        /\ ~engine'.invoked
        /\ fs' = fs
    ]_vars

\* a conversion met the output an earlier one had written
C6_Witness ==
    /\ result.op = "convert" /\ ~result.success
    /\ result.message = "already exists"
    /\ ~engine.invoked
    /\ IsFile(fs, Append(ResolvedOutputPath(request, OutputRoot), ConfigJson))
    /\ Strip(request.output_name) = EmptyStr

\* an identifier as the claim wants it: not blank, exactly one "/", text on
\* both sides of it
OneSeparatorBetweenTexts(id) ==
    /\ Strip(id) # EmptyStr
    /\ Cardinality({i \in 1..Len(id) : id[i] = Slash}) = 1
    /\ id[1] # Slash
    /\ id[Len(id)] # Slash

\* C7: a conversion of an identifier that is blank or has not exactly one
\* "/" with text on both sides, or of a quantization other than 4-bit,
\* 8-bit and bf16, returns a failure with no output path, does not call the
\* engine and leaves the file system as it was.
C7_InvalidRequestRejected ==
    [][(ConvertStep /\ (\/ ~OneSeparatorBetweenTexts(request.model_path)
                        \/ request.quantization \notin {"4-bit", "8-bit", "bf16"})) =>
        /\ ~result'.success
        /\ result'.path = <<>>
        /\ ~engine'.invoked
        /\ fs' = fs
    ]_vars

\* "org/m/m", two separators, was rejected
C7_Witness ==
    /\ result.op = "convert" /\ ~result.success
    /\ request.model_path = <<"org", Slash, "m", Slash, "m">>
    /\ request.quantization = "4-bit"
    /\ result.message = "one separator"

\* C8: after a failed conversion that called the engine the resolved output
\* path does not exist.
C8_FailureLeavesNoOutput ==
    (result.op = "convert" /\ engine.invoked /\ ~result.success) =>
        ~Exists(fs, engine.mlx_path)

\* C9: a failure result of convert_model carries an empty output path.
C9_FailureHasNoPath ==
    (result.op = "convert" /\ ~result.success) => result.path = <<>>

----------------------------------------------------------------------------
(* Claims about the inference cache *)

\* a step in which load_model ran: a call of it, or a generate_text that got
\* past its two checks
LoadRequestStep ==
    \/ result'.op = "load"
    \/ result'.op = "generate" /\ result'.message \notin {"empty prompt", "no model path"}

EngineLoadCalled == Len(loads') = Len(loads) + 1

\* the cache holds handles loaded for p
HoldsHandlesOf(p) == cache.model # 0 /\ cache.path = <<p>>

\* C10 as stated: a load request for p calls the engine's load exactly when
\* the cache is empty or its stored path differs from p.
C10_EngineCalledExactlyOnMiss ==
    [][LoadRequestStep => (EngineLoadCalled <=> ~HoldsHandlesOf(result'.arg))]_vars

\* C10 as amended: a load request for p calls the engine's load exactly when
\* the cache is empty or its stored path differs from p and, besides, p
\* exists, is a directory and mlx_lm can be imported; a request that does
\* not get to the engine, and a load that raises, leave the cache as it
\* was.  A request the cache serves returns the cached handles and leaves
\* the cache as it was; a load that returns puts p and its new handles in
\* the cache.  clear_cache empties the cache, so the load after it is a new
\* one.
C10_SingleSlotCache ==
    [][/\ LoadRequestStep =>
            LET p == result'.arg
                n == Len(loads')
            IN  /\ EngineLoadCalled <=>
                      /\ ~HoldsHandlesOf(p)
                      /\ IsDir(fs, PathOf(p))
                      /\ result'.message # "RuntimeError: not installed"
                /\ ~EngineLoadCalled => loads' = loads
                /\ EngineLoadCalled => loads'[n].path = p
                /\ HoldsHandlesOf(p) =>
                      /\ cache' = cache
                      /\ result'.op = "load" =>
                            result'.value = <<cache.model, cache.tokenizer>>
                /\ (EngineLoadCalled /\ loads'[n].ok) =>
                      /\ cache' = [path |-> <<p>>, model |-> ModelHandle(n),
                                   tokenizer |-> TokenizerHandle(n)]
                      /\ cache'.model # cache.model
                /\ (~EngineLoadCalled \/ ~loads'[n].ok) => cache' = cache
       /\ result'.op = "clear" => (cache'.model = 0 /\ cache'.path = <<>> /\ loads' = loads)
    ]_vars

\* A, then B, then A again: three loads by the engine, the third one of A
C10_Witness ==
    /\ Len(loads) = 3
    /\ loads[1] = [path |-> PathA, ok |-> TRUE]
    /\ loads[2] = [path |-> PathB, ok |-> TRUE]
    /\ loads[3] = [path |-> PathA, ok |-> TRUE]
    /\ cache = [path |-> <<PathA>>, model |-> ModelHandle(3), tokenizer |-> TokenizerHandle(3)]

----------------------------------------------------------------------------
(* Claims about the tester, line by line *)

\* the loaded models there are: the one the cache holds, the ones the engine
\* is loading and the ones the callers hold in their local variables
Resident ==
    ({cache.model} \cup {calls[t].model : t \in Callers}
        \cup {ModelHandle(calls[t].n) : t \in {u \in Callers : calls[u].pc = "loading"}})
    \ {0}

\* C11: a load_model with a path that is not the cached one evicts the old
\* entry before it loads, so at every point, while the engine's load runs and
\* after a load that fails too, at most one loaded model is resident (here
\* even for the runs whose calls come one at a time).
C11_AtMostOneResident == serialized => Cardinality(Resident) <= 1

\* C12: generate_text never lets an exception out: whatever fails, it returns
\* success false and an error that is not empty; a blank prompt or model path
\* is turned down before any load and leaves the cache as it was.
C12_GenerateNeverRaises ==
    [][result'.op = "generate" =>
          /\ result'.raised = ""
          /\ ~result'.success => result'.message # ""
          /\ Strip(result'.arg) = EmptyStr => (cache' = cache /\ loads' = loads)
          /\ result'.message \in {"empty prompt", "no model path"} =>
                (cache' = cache /\ loads' = loads)
    ]_vars

\* the cache is empty, or holds a path and the pair of handles that a load of
\* that path returned
CachePaired ==
    \/ cache = NoCache
    \/ \E n \in 1..Len(loads) :
          /\ loads[n].ok
          /\ cache = [path |-> Some(loads[n].path), model |-> ModelHandle(n),
                      tokenizer |-> TokenizerHandle(n)]

\* the last call that was served a model was served the pair of handles that
\* a load of the path it asked for returned
ServedOwnHandles ==
    (result.op \in {"load", "generate"} /\ result.success) =>
        \E n \in 1..Len(loads) :
            /\ loads[n].ok
            /\ loads[n].path = result.arg
            /\ result.value = <<ModelHandle(n), TokenizerHandle(n)>>

AllIdle == \A t \in Callers : ~Active(t)

\* C13: with the calls serialized, the stored model and tokenizer are always
\* the pair the load of the stored path returned, and a request is served
\* that pair; the state in which the stored path is of one load and the
\* handles of another, and is served, takes calls that run at the same time
\* (C13_Witness).
C13_SerializedCacheIsPaired ==
    serialized => /\ ServedOwnHandles
                  /\ AllIdle => CachePaired
                  /\ Cardinality({t \in Callers : Active(t)}) <= 1

\* two loads of different paths ran at the same time and left the path of
\* one with the handles of the other; a later request for the stored path
\* was served them
C13_Witness ==
    /\ ~serialized
    /\ AllIdle
    /\ Len(loads) = 2 /\ loads[1].ok /\ loads[2].ok /\ loads[1].path # loads[2].path
    /\ cache.path = Some(loads[2].path)
    /\ cache.model = ModelHandle(1) /\ cache.tokenizer = TokenizerHandle(1)
    /\ result.op = "load" /\ result.success /\ result.arg = loads[2].path
    /\ result.value = <<ModelHandle(1), TokenizerHandle(1)>>

----------------------------------------------------------------------------
(* Claims about what an import leaves in the output directory *)

\* the paths that one file system has and the other has not, or has with
\* another size
Changed(f, g) ==
    {p \in DOMAIN f.files \cup DOMAIN g.files :
        \/ p \notin DOMAIN f.files
        \/ p \notin DOMAIN g.files
        \/ f.files[p] # g.files[p]}
    \cup ((f.dirs \ g.dirs) \cup (g.dirs \ f.dirs))

\* C14: a successful import makes and changes files only inside the
\* destination it returns, outputRoot/<model name> (and makes outputRoot
\* itself where it was missing): no other path of outputRoot is made,
\* overwritten or changed, also for an archive with one top-level folder and
\* further entries without a separator.
C14_ImportWritesOnlyInsideDestination ==
    [][(ImportStep /\ result'.success) =>
          \A p \in Changed(fs, fs') :
              IsPrefix(result'.path, p) \/ IsPrefix(p, result'.arg)
    ]_vars

\* C15: an import that returns a failure leaves the directories under
\* outputRoot as they were and leaves no destination behind, so the same
\* import again is not turned down for a destination that the failed one
\* made.
C15_FailedImportLeavesNoDestination ==
    [][(ImportStep /\ ~result'.success) =>
          /\ ChildDirs(fs', result'.arg) = ChildDirs(fs, result'.arg)
          /\ ValidModelZip(archive) =>
                (Exists(fs', ResolvedDest(archive, result'.arg))
                    => Exists([fs EXCEPT !.dirs = @ \cup Prefixes(result'.arg)],
                              ResolvedDest(archive, result'.arg)))
    ]_vars

=============================================================================
